---------------------------- MODULE Spec2Model ----------------------------
(***************************************************************************)
(* State-machine model of merger.py: merging per-producer shelves of       *)
(* per-contig count matrices into one wssd_out_file (HDF5 container).      *)
(*                                                                         *)
(* A matrix is a sequence of rows, each row a sequence of counts.          *)
(* A shelf value is a record: a dense numpy array, a scipy sparse matrix   *)
(* (kept in coordinate form), or an object of another class.               *)
(* A dictionary (a contigs accumulator, an opened shelf) is a function     *)
(* whose DOMAIN is its key set.                                            *)
(***************************************************************************)
EXTENDS Integers, Sequences, FiniteSets, TLC

VARIABLES
    stores,      \* path -> contents of the shelf at that path (contig -> value)
    infiles,     \* the list of shelf paths handed to the loader
    idx,         \* batch loaders: index into infiles of the next shelf
    contigs,     \* the accumulator dictionary (contig -> matrix or None)
    pc,          \* position of the single control flow
    status,      \* how the run ended: "running", "ok", or the exception raised
    contig_name, \* per-contig loaders: the contig being merged ("" otherwise)
    todo,        \* the items the running for loop over a dictionary has yet to visit
    fout,        \* the output container: open?, dirty?, has the group?, its arrays
    created,     \* names of the arrays created by this run, in order
    caller,      \* "main" when __main__ runs, "call" when one function is called alone
    fileset,     \* live loaders: the shelves not yet drained
    processed_infiles, \* live loaders: the shelves drained so far
    attempted,   \* live loaders: the shelves shelve.open was called on in this round
    reads,       \* live loaders: path -> number of times the shelf was opened and read
    exists,      \* file system: path -> os.path.isfile(path)
    age,         \* file system: path -> time.time() - os.path.getmtime(path), in seconds
    args,        \* the parsed command line
    nopen        \* number of times the output container was opened

\* The state of the live loaders and of the file system they poll.
liveVars == <<fileset, processed_infiles, attempted, reads, exists, age>>

\* What the batch shelf loaders never touch.
notLoader == <<todo, fout, created, caller, liveVars, args, nopen>>

\* What the writers never touch.
notWriter == <<stores, infiles, idx, contig_name, caller, liveVars, args, nopen>>

vars == <<stores, infiles, idx, contigs, pc, status, contig_name, todo, fout, created,
          caller, fileset, processed_infiles, attempted, reads, exists, age, args, nopen>>

(***************************************************************************)
(* Bounds of the model.                                                    *)
(***************************************************************************)
NumFiles == 2

Counts == 0 .. 1

\* Shape (2B, L) of the matrices the merge specifications draw: B = 1, L = 1.
MergeShape == <<2, 1>>

Files == 1 .. NumFiles

EmptyDict == [k \in {} |-> 0]

Put(d, k, v) == [x \in (DOMAIN d) \cup {k} |-> IF x = k THEN v ELSE d[x]]

(***************************************************************************)
(* Matrices and shelf values.                                              *)
(***************************************************************************)
Shape(m) == <<Len(m), Len(m[1])>>

Mats(rows, cols) == [1 .. rows -> [1 .. cols -> Counts]]

Dense(m) == [kind |-> "ndarray", m |-> m]

NonZero(m) == {p \in (1 .. Len(m)) \X (1 .. Len(m[1])) : m[p[1]][p[2]] # 0}

Sparse(m) == [kind |-> "sparse", shape |-> Shape(m),
              data |-> [p \in NonZero(m) |-> m[p[1]][p[2]]]]

Other == [kind |-> "list"]

None == [kind |-> "None"]

issparse(matrix) == matrix.kind = "sparse"

\* toarray with the two coordinates of an entry exchanged.
toarray_swapped(sp) ==
    Dense([i \in 1 .. sp.shape[1] |->
              [j \in 1 .. sp.shape[2] |->
                  IF <<j, i>> \in DOMAIN sp.data THEN sp.data[<<j, i>>] ELSE 0]])

toarray(sp) ==
    Dense([i \in 1 .. sp.shape[1] |->
              [j \in 1 .. sp.shape[2] |->
                  IF <<i, j>> \in DOMAIN sp.data THEN sp.data[<<i, j>>] ELSE 0]])

\* convert_matrix with any other type let through as an all-zero matrix.
convert_matrix_lenient(matrix) ==
    IF issparse(matrix) THEN [status |-> "ok", matrix |-> toarray(matrix)]
    ELSE IF matrix.kind = "ndarray" THEN [status |-> "ok", matrix |-> matrix]
    ELSE [status |-> "ok",
          matrix |-> Dense([i \in 1 .. MergeShape[1] |-> [j \in 1 .. MergeShape[2] |-> 0]])]

\* convert_matrix: densify a sparse matrix, pass an ndarray, sys.exit(1) otherwise.
convert_matrix(matrix) ==
    LET m1 == IF issparse(matrix) THEN toarray(matrix) ELSE matrix
    IN  IF m1.kind = "ndarray"
        THEN [status |-> "ok", matrix |-> m1]
        ELSE [status |-> "SystemExit", matrix |-> m1]

\* numpy's in-place a += b: b is broadcast to a's shape, or ValueError;
\* None += ndarray is a TypeError.
CanBroadcast(sa, sb) ==
    /\ sb[1] = sa[1] \/ sb[1] = 1
    /\ sb[2] = sa[2] \/ sb[2] = 1

iadd(a, b) ==
    IF a.kind # "ndarray" THEN [status |-> "TypeError", matrix |-> a]
    ELSE LET sa == Shape(a.m)
             sb == Shape(b.m)
         IN  IF ~CanBroadcast(sa, sb) THEN [status |-> "ValueError", matrix |-> a]
             ELSE [status |-> "ok",
                   matrix |-> Dense([i \in 1 .. sa[1] |->
                                 [j \in 1 .. sa[2] |->
                                     a.m[i][j] + b.m[IF sb[1] = 1 THEN 1 ELSE i]
                                                    [IF sb[2] = 1 THEN 1 ELSE j]]])]

\* Lines 44-47 with a bug: a contig already present is overwritten.
accumulate_overwrite(acc, contig, matrix) ==
    [status |-> "ok", contigs |-> Put(acc, contig, matrix)]

\* Lines 44-47: insert the first matrix of a contig, add every later one.
accumulate(acc, contig, matrix) ==
    IF contig \notin DOMAIN acc
    THEN [status |-> "ok", contigs |-> Put(acc, contig, matrix)]
    ELSE LET s == iadd(acc[contig], matrix)
         IN  [status |-> s.status,
              contigs |-> IF s.status = "ok" THEN Put(acc, contig, s.matrix) ELSE acc]

\* add_contents_to_contigs, the items of dat visited in the given order.
RECURSIVE add_contents_to_contigs(_, _, _)
add_contents_to_contigs(dat, acc, order) ==
    IF order = <<>> THEN [status |-> "ok", contigs |-> acc]
    ELSE LET contig == Head(order)
             conv == convert_matrix(dat[contig])
         IN  IF conv.status # "ok" THEN [status |-> conv.status, contigs |-> acc]
             ELSE LET r == accumulate(acc, contig, conv.matrix)
                  IN  IF r.status # "ok" THEN r
                      ELSE add_contents_to_contigs(dat, r.contigs, Tail(order))

\* The orders in which the items of a dictionary can be visited.
RECURSIVE Orders(_)
Orders(S) ==
    IF S = {} THEN {<<>>}
    ELSE UNION {{<<x>> \o o : o \in Orders(S \ {x})} : x \in S}

(***************************************************************************)
(* Shelves the producers can have written.                                 *)
(***************************************************************************)
PostRegions == {"chr1", "chr2"}

DenseShelves(keys) ==
    UNION {{[k \in K |-> Dense(f[k])] : f \in [K -> Mats(MergeShape[1], MergeShape[2])]} :
           K \in SUBSET keys}

SparseShelves(keys) ==
    UNION {{[k \in K |-> Sparse(f[k])] : f \in [K -> Mats(MergeShape[1], MergeShape[2])]} :
           K \in SUBSET keys}

Shelves(keys) == DenseShelves(keys) \cup SparseShelves(keys)

(***************************************************************************)
(* The output container. An array is a sequence (first axis) of sequences  *)
(* (second axis) of pairs (third axis: channel 0, channel 1).              *)
(***************************************************************************)
ClosedFile == [open |-> FALSE, dirty |-> FALSE, group |-> FALSE, arrays |-> EmptyDict]

\* A function called alone has no command line.
NoArgs == [per_contig_merge |-> FALSE, contig |-> <<>>, contigs_file |-> <<>>,
           live_merge |-> FALSE, wssd_merge |-> <<>>]

NoLive ==
    /\ args = NoArgs
    /\ nopen = 0
    /\ fileset = {}
    /\ processed_infiles = {}
    /\ attempted = {}
    /\ reads = [f \in Files |-> 0]
    /\ exists = [f \in Files |-> TRUE]
    /\ age = [f \in Files |-> 0]

NoOutput ==
    /\ caller = "call"
    /\ NoLive
    /\ todo = {}
    /\ fout = ClosedFile
    /\ created = <<>>

\* Where a function goes on returning: back into __main__, or nowhere.
RetPc(next) == IF caller = "main" THEN next ELSE "returned"

RetStatus == IF caller = "main" THEN "running" ELSE "ok"

(***************************************************************************)
(* load_matrices_post: one action per iteration of its for loop.           *)
(***************************************************************************)
InitPost ==
    /\ stores \in [Files -> Shelves(PostRegions)]
    /\ infiles = [i \in Files |-> i]
    /\ idx = 1
    /\ contigs = EmptyDict
    /\ pc = "load_matrices_post"
    /\ status = "running"
    /\ contig_name = ""
    /\ NoOutput

PostIter ==
    /\ pc = "load_matrices_post"
    /\ idx <= Len(infiles)
    /\ \E order \in Orders(DOMAIN stores[infiles[idx]]) :
          LET r == add_contents_to_contigs(stores[infiles[idx]], contigs, order)
          IN  /\ contigs' = r.contigs
              /\ IF r.status = "ok"
                 THEN /\ idx' = idx + 1
                      /\ UNCHANGED <<pc, status>>
                 ELSE /\ pc' = "terminated"
                      /\ status' = r.status
                      /\ UNCHANGED idx
    /\ UNCHANGED <<stores, infiles, contig_name, notLoader>>

\* Line 78 with the error printed and the loop going on, as in the live loader.
PostOpenFail_continue ==
    /\ pc = "load_matrices_post"
    /\ idx <= Len(infiles)
    /\ idx' = idx + 1
    /\ status' = "dbm.error"
    /\ UNCHANGED <<pc, contigs, stores, infiles, contig_name, notLoader>>

\* Line 78: shelve.open raises; nothing in load_matrices_post or __main__
\* catches it.
PostOpenFail ==
    /\ pc = "load_matrices_post"
    /\ idx <= Len(infiles)
    /\ pc' = "terminated"
    /\ status' = "dbm.error"
    /\ UNCHANGED <<idx, contigs, stores, infiles, contig_name, notLoader>>

\* Line 77 with the for loop left after the first shelf.
PostReturn_early ==
    /\ pc = "load_matrices_post"
    /\ idx > 1
    /\ pc' = RetPc("open_outfile")
    /\ status' = RetStatus
    /\ UNCHANGED <<stores, infiles, idx, contigs, contig_name, notLoader>>

\* Lines 77 and 84: the for loop is over and contigs is returned.
PostReturn ==
    /\ pc = "load_matrices_post"
    /\ idx > Len(infiles)
    /\ pc' = RetPc("open_outfile")
    /\ status' = RetStatus
    /\ UNCHANGED <<stores, infiles, idx, contigs, contig_name, notLoader>>

NextPost == PostIter \/ PostOpenFail \/ PostReturn

SpecPost == InitPost /\ [][NextPost]_vars

(***************************************************************************)
(* What a merge of shelves is expected to give, computed apart from the    *)
(* loaders: a fold in a given order, and a cell-by-cell sum.               *)
(***************************************************************************)
AnyOrder(S) == CHOOSE o \in Orders(S) : TRUE

RECURSIVE MergedInOrder(_, _)
MergedInOrder(p, acc) ==
    IF p = <<>> THEN acc
    ELSE MergedInOrder(Tail(p),
             add_contents_to_contigs(stores[Head(p)], acc,
                                     AnyOrder(DOMAIN stores[Head(p)])).contigs)

Holders(r) == {f \in Files : r \in DOMAIN stores[f]}

Cell(v, i, j) ==
    IF v.kind = "sparse"
    THEN (IF <<i, j>> \in DOMAIN v.data THEN v.data[<<i, j>>] ELSE 0)
    ELSE v.m[i][j]

RECURSIVE SumCell(_, _, _, _)
SumCell(H, r, i, j) ==
    IF H = {} THEN 0
    ELSE LET f == CHOOSE x \in H : TRUE
         IN  Cell(stores[f][r], i, j) + SumCell(H \ {f}, r, i, j)

SumOver(r) ==
    Dense([i \in 1 .. MergeShape[1] |->
              [j \in 1 .. MergeShape[2] |-> SumCell(Holders(r), r, i, j)]])

\* C1: the accumulator load_matrices_post returns equals the merge of the same
\* shelves taken in any other order (the accumulated value of every region is
\* independent of the order in which the shelves are merged).
C1_OrderIndependent ==
    (pc = "returned" /\ contig_name = "") =>
        \A p \in Orders(Files) : MergedInOrder(p, EmptyDict) = contigs

\* C1 witness: a finished merge in which two shelves hold different matrices
\* for one region, so that the order could matter.
C1_Witness ==
    /\ pc = "returned" /\ contig_name = ""
    /\ \E r \in PostRegions : \E f, g \in Holders(r) :
          /\ f # g
          /\ Cell(stores[f][r], 1, 1) # Cell(stores[g][r], 1, 1)
          /\ stores[f][r].kind # stores[g][r].kind

\* C4: after a whole-accumulator batch merge every region held by some shelf
\* is in the accumulator with the elementwise sum of the matrices stored under
\* it, and a region held by no shelf is not in the accumulator.
C4_BatchSum ==
    (pc = "returned" /\ contig_name = "") =>
        \A r \in PostRegions :
            IF Holders(r) = {} THEN r \notin DOMAIN contigs
            ELSE r \in DOMAIN contigs /\ contigs[r] = SumOver(r)

\* C4 witness: every shelf holds an all-1s matrix for chr1 (one of them in
\* sparse form) and the merge ended with an all-NumFiles matrix (all 2s for
\* two shelves).
C4_Witness ==
    /\ pc = "returned" /\ contig_name = ""
    /\ Holders("chr1") = Files
    /\ \A f \in Files : \A i \in 1 .. MergeShape[1] : Cell(stores[f]["chr1"], i, 1) = 1
    /\ \E f \in Files : stores[f]["chr1"].kind = "sparse"
    /\ \A i \in 1 .. MergeShape[1] : contigs["chr1"].m[i][1] = NumFiles

(***************************************************************************)
(* load_matrices_per_contig: one action per iteration of its for loop.     *)
(* The caller passes the accumulator {contig_name: None}.                  *)
(***************************************************************************)
PerContigKeys == {"chr2", "contig_name"}

InitPerContig ==
    /\ stores \in [Files -> Shelves(PerContigKeys)]
    /\ infiles = [i \in Files |-> i]
    /\ idx = 1
    /\ contig_name = "chr2"
    /\ contigs = Put(EmptyDict, contig_name, None)
    /\ pc = "load_matrices_per_contig"
    /\ status = "running"
    /\ NoOutput

\* Lines 123-130 for one opened shelf dat.
per_contig_body(dat, acc, name) ==
    IF name \notin DOMAIN dat THEN [status |-> "ok", contigs |-> acc]
    ELSE IF "contig_name" \notin DOMAIN dat
         THEN [status |-> "KeyError", contigs |-> acc]
         ELSE LET conv == convert_matrix(dat["contig_name"])
              IN  IF conv.status # "ok" THEN [status |-> conv.status, contigs |-> acc]
                  ELSE IF acc[name] = None
                       THEN [status |-> "ok", contigs |-> Put(acc, name, conv.matrix)]
                       ELSE LET s == iadd(acc[name], conv.matrix)
                            IN  [status |-> s.status,
                                 contigs |-> IF s.status = "ok"
                                             THEN Put(acc, name, s.matrix) ELSE acc]

PerContigIter ==
    /\ pc = "load_matrices_per_contig"
    /\ idx <= Len(infiles)
    /\ LET r == per_contig_body(stores[infiles[idx]], contigs, contig_name)
       IN  /\ contigs' = r.contigs
           /\ IF r.status = "ok"
              THEN /\ idx' = idx + 1
                   /\ UNCHANGED <<pc, status>>
              ELSE /\ pc' = "terminated"
                   /\ status' = r.status
                   /\ UNCHANGED idx
    /\ UNCHANGED <<stores, infiles, contig_name, notLoader>>

\* Line 119: shelve.open(infile, flag="r") raises and nothing catches it.
PerContigOpenFail ==
    /\ pc = "load_matrices_per_contig"
    /\ idx <= Len(infiles)
    /\ pc' = "terminated"
    /\ status' = "dbm.error"
    /\ UNCHANGED <<idx, contigs, stores, infiles, contig_name, notLoader>>

PerContigReturn ==
    /\ pc = "load_matrices_per_contig"
    /\ idx > Len(infiles)
    /\ pc' = "returned"
    /\ status' = "ok"
    /\ UNCHANGED <<stores, infiles, idx, contigs, contig_name, notLoader>>

NextPerContig == PerContigIter \/ PerContigOpenFail \/ PerContigReturn

SpecPerContig == InitPerContig /\ [][NextPerContig]_vars

Ended == pc \in {"returned", "terminated"}

\* C2: the per-region batch merge of region r, every shelf opening, ends with
\* the matrix that the whole-accumulator batch merge of the same shelves holds
\* for r.
C2_PerContigEqualsPost ==
    (Ended /\ contig_name # "" /\ status # "dbm.error") =>
        LET post == MergedInOrder(infiles, EmptyDict)
        IN  /\ status = "ok"
            /\ contig_name \in DOMAIN post => contigs[contig_name] = post[contig_name]
            /\ contig_name \notin DOMAIN post => contigs[contig_name] = None

\* C6: the per-region merge of r, every shelf opening, ends with exactly the
\* sum of the matrices of the shelves that hold r; shelves without r contribute nothing (with no
\* holder the entry is still None).
C6_PerContigSumOfHolders ==
    (Ended /\ contig_name # "" /\ status # "dbm.error") =>
        /\ status = "ok"
        /\ contigs[contig_name] =
              (IF Holders(contig_name) = {} THEN None ELSE SumOver(contig_name))

(***************************************************************************)
(* write_to_h5: the group is looked up or created, then one action per     *)
(* iteration of the for loop over counts.items().                          *)
(***************************************************************************)
MaxB == 2

MaxL == 2

UnitMat(rows, cols, p) ==
    [i \in 1 .. rows |-> [j \in 1 .. cols |-> IF <<i, j>> = p THEN 1 ELSE 0]]

IndexMat(rows, cols) ==
    [i \in 1 .. rows |-> [j \in 1 .. cols |-> (i - 1) * cols + j]]

\* Matrices of shape (2B, L): one with all cells different, and the unit ones.
WriteMats ==
    UNION {{IndexMat(2 * B, L)} \cup
           {UnitMat(2 * B, L, p) : p \in (1 .. 2 * B) \X (1 .. L)} :
           <<B, L>> \in (1 .. MaxB) \X (1 .. MaxL)}

WriteRegions == {"chr1", "chr2"}

WriteCounts ==
    UNION {[K -> {Dense(m) : m \in WriteMats}] : K \in (SUBSET WriteRegions) \ {{}}}

\* An array some earlier run left in the container.
OldArray == <<<<<<7, 7>>>>>>

OpenFiles ==
    {[open |-> TRUE, dirty |-> FALSE, group |-> FALSE, arrays |-> EmptyDict],
     [open |-> TRUE, dirty |-> FALSE, group |-> TRUE, arrays |-> EmptyDict],
     [open |-> TRUE, dirty |-> FALSE, group |-> TRUE,
      arrays |-> Put(EmptyDict, "chr1", OldArray)]}

\* The counts of the model are far below 2^32, where the UInt32Atom of the
\* array stores a count as it is.
Transpose(m) == [i \in 1 .. Len(m[1]) |-> [j \in 1 .. Len(m) |-> m[j][i]]]

\* Lines 144-159 with the two channels exchanged.
carray_channels_swapped(matrix) ==
    LET nrows == Len(matrix)
        ncols == Len(matrix[1])
        nedists == nrows \div 2
        wssd_contig == Transpose(matrix)
    IN  [i \in 1 .. ncols |->
            [j \in 1 .. nedists |->
                <<wssd_contig[i][j],
                  wssd_contig[i][nedists + j]>>]]

\* Lines 144-159: the (ncols, nedists, 2) array filled from the transposed matrix.
carray(matrix) ==
    LET nrows == Len(matrix)
        ncols == Len(matrix[1])
        nedists == nrows \div 2
        wssd_contig == Transpose(matrix)
    IN  [i \in 1 .. ncols |->
            [j \in 1 .. nedists |->
                <<wssd_contig[i][nedists + j],
                  wssd_contig[i][j]>>]]

\* The zero-filled array tables.CArray creates before anything is assigned.
carray_empty(ncols, nedists) ==
    [i \in 1 .. ncols |-> [j \in 1 .. nedists |-> <<0, 0>>]]

\* One iteration of the loop of write_to_h5 on the container f.
write_one(f, contig, matrix) ==
    IF matrix.kind # "ndarray"
    THEN [status |-> "AttributeError", fout |-> f]
    ELSE IF contig \in DOMAIN f.arrays
    THEN [status |-> "NodeError", fout |-> f]
    ELSE LET nrows == Len(matrix.m)
             ncols == Len(matrix.m[1])
             nedists == nrows \div 2
         IN  IF nrows - nedists # nedists
             THEN [status |-> "ValueError",
                   fout |-> [f EXCEPT !.dirty = TRUE,
                               !.arrays = Put(f.arrays, contig,
                                              carray_empty(ncols, nedists))]]
             ELSE [status |-> "ok",
                   fout |-> [f EXCEPT !.dirty = FALSE,
                               !.arrays = Put(f.arrays, contig, carray(matrix.m))]]

\* A with statement that leaves the container as it is.
with_exit_leak(f) == f

\* The with statement around the output container closes it on every way out.
with_exit(f) == [f EXCEPT !.open = FALSE, !.dirty = FALSE]

InitWrite ==
    /\ caller = "call"
    /\ NoLive
    /\ stores = [f \in Files |-> EmptyDict]
    /\ infiles = <<>>
    /\ idx = 1
    /\ contig_name = ""
    /\ contigs \in WriteCounts
    /\ fout \in OpenFiles
    /\ todo = {}
    /\ created = <<>>
    /\ pc = "write_to_h5"
    /\ status = "running"

WriteGroup ==
    /\ pc = "write_to_h5"
    /\ fout' = [fout EXCEPT !.group = TRUE, !.dirty = fout.dirty \/ ~fout.group]
    /\ todo' = DOMAIN contigs
    /\ pc' = "write_loop"
    /\ UNCHANGED <<contigs, status, created, notWriter>>

WriteRegion ==
    /\ pc = "write_loop"
    /\ \E contig \in todo :
          LET r == write_one(fout, contig, contigs[contig])
          IN  IF r.status = "ok"
              THEN /\ fout' = r.fout
                   /\ created' = Append(created, contig)
                   /\ todo' = todo \ {contig}
                   /\ UNCHANGED <<pc, status>>
              ELSE /\ fout' = IF caller = "main" THEN with_exit(r.fout) ELSE r.fout
                   /\ created' = IF contig \in DOMAIN r.fout.arrays /\ contig \notin DOMAIN fout.arrays
                                 THEN Append(created, contig) ELSE created
                   /\ pc' = "terminated"
                   /\ status' = r.status
                   /\ UNCHANGED todo
    /\ UNCHANGED <<contigs, notWriter>>

WriteReturn ==
    /\ pc = "write_loop"
    /\ todo = {}
    /\ pc' = RetPc("with_exit")
    /\ status' = RetStatus
    /\ UNCHANGED <<contigs, todo, fout, created, notWriter>>

NextWrite == WriteGroup \/ WriteRegion \/ WriteReturn

SpecWrite == InitWrite /\ [][NextWrite]_vars

Range(q) == {q[i] : i \in 1 .. Len(q)}

\* C5: for every region matrix M of shape (2B, L) that write_to_h5 has written,
\* the array A created under the region's name has shape (L, B, 2) with
\* A[i][j][0] = M[B + j][i] (depth) and A[i][j][1] = M[j][i] (start); the
\* channels 0 and 1 are the positions 1 and 2 of a pair here.
C5_ArrayLayout ==
    \A name \in Range(created) :
        LET M == contigs[name].m
            B == Len(M) \div 2
            L == Len(M[1])
            A == fout.arrays[name]
        IN  /\ Len(A) = L
            /\ \A i \in 1 .. L :
                  /\ Len(A[i]) = B
                  /\ \A j \in 1 .. B :
                        /\ Len(A[i][j]) = 2
                        /\ A[i][j][1] = M[B + j][i]
                        /\ A[i][j][2] = M[j][i]

\* C5 witness: write_to_h5 returned after writing a (4, 2) matrix whose cells
\* are all different.
C5_Witness ==
    /\ pc = "returned"
    /\ \E name \in Range(created) :
          /\ contigs[name].m = IndexMat(4, 2)
          /\ fout.arrays[name][2][1] = <<6, 2>>

(***************************************************************************)
(* load_matrices_live and load_matrices_per_contig_live (contig_name set): *)
(* the while loop polls the pending shelves, one action per shelf visited  *)
(* by the for loop, then removes the processed ones and sleeps.            *)
(***************************************************************************)
QuiescenceWindow == 300

PollInterval == 30

\* Ages are kept up to MaxAge: the loaders only compare them with the window.
MaxAge == 330

Ones == [i \in 1 .. MergeShape[1] |-> [j \in 1 .. MergeShape[2] |-> 1]]

\* The shelves the producers of a live run write.
LiveStores ==
    {[f \in Files |-> Put(EmptyDict, "chr1", Dense(Ones))],
     [f \in Files |-> IF f = 1
                      THEN Put(Put(EmptyDict, "chr1", Sparse(Ones)), "chr2", Dense(Ones))
                      ELSE Put(EmptyDict, "chr1", Dense(Ones))]}

\* Lines 58 and 96 with >= in place of >.
Stable_at_window(f) == exists[f] /\ age[f] >= QuiescenceWindow

\* Lines 58 and 96: the shelf exists and was last modified over 5 minutes ago.
Stable(f) == exists[f] /\ age[f] > QuiescenceWindow

InitLive ==
    /\ caller = "call"
    /\ args = NoArgs
    /\ nopen = 0
    /\ stores \in LiveStores
    /\ infiles = [i \in Files |-> i]
    /\ idx = 1
    /\ contig_name \in {"", "chr2"}
    /\ contigs = IF contig_name = "" THEN EmptyDict ELSE Put(EmptyDict, contig_name, None)
    /\ todo = {}
    /\ fout = ClosedFile
    /\ created = <<>>
    /\ fileset = Range(infiles)
    /\ processed_infiles = {}
    /\ attempted = {}
    /\ reads = [f \in Files |-> 0]
    /\ exists \in [Files -> BOOLEAN]
    /\ age = [f \in Files |-> 0]
    /\ pc = "live_while"
    /\ status = "running"

notLive == <<stores, infiles, idx, contig_name, fout, created, caller, args, nopen>>

\* Lines 55-56 / 93-94: the while test holds and the for loop starts.
LiveRound ==
    /\ pc = "live_while"
    /\ fileset # {}
    /\ todo' = fileset
    /\ attempted' = {}
    /\ pc' = "live_for"
    /\ UNCHANGED <<contigs, status, fileset, processed_infiles, reads, exists, age, notLive>>

\* Lines 58 / 96: the shelf is missing or too recently modified.
LiveSkip ==
    /\ pc = "live_for"
    /\ \E infile \in todo :
          /\ ~Stable(infile)
          /\ todo' = todo \ {infile}
    /\ UNCHANGED <<contigs, pc, status, liveVars, notLive>>

\* Lines 59-63 with the failed path dropped from the pending set.
LiveOpenFail_dropped ==
    /\ pc = "live_for"
    /\ \E infile \in todo :
          /\ Stable(infile)
          /\ attempted' = attempted \cup {infile}
          /\ todo' = todo \ {infile}
          /\ fileset' = fileset \ {infile}
    /\ UNCHANGED <<contigs, pc, status, processed_infiles, reads, exists, age, notLive>>

\* Lines 59-63 / 97-101: shelve.open raises dbm.error; the error is printed.
LiveOpenFail ==
    /\ pc = "live_for"
    /\ \E infile \in todo :
          /\ Stable(infile)
          /\ attempted' = attempted \cup {infile}
          /\ todo' = todo \ {infile}
    /\ UNCHANGED <<contigs, pc, status, fileset, processed_infiles, reads, exists, age,
                   notLive>>

\* Lines 103-104: the per-contig loader merges a shelf that has the contig.
live_merge(dat, acc, order) ==
    IF contig_name = "" \/ contig_name \in DOMAIN dat
    THEN add_contents_to_contigs(dat, acc, order)
    ELSE [status |-> "ok", contigs |-> acc]

\* Lines 64-70 / 102-109: the shelf opens and is merged.
LiveLoad ==
    /\ pc = "live_for"
    /\ \E infile \in todo :
          /\ Stable(infile)
          /\ attempted' = attempted \cup {infile}
          /\ reads' = [reads EXCEPT ![infile] = @ + 1]
          /\ \E order \in Orders(DOMAIN stores[infile]) :
                LET r == live_merge(stores[infile], contigs, order)
                IN  /\ contigs' = r.contigs
                    /\ IF r.status = "ok"
                       THEN /\ processed_infiles' = processed_infiles \cup {infile}
                            /\ todo' = todo \ {infile}
                            /\ UNCHANGED <<pc, status>>
                       ELSE /\ pc' = "terminated"
                            /\ status' = r.status
                            /\ UNCHANGED <<processed_infiles, todo>>
    /\ UNCHANGED <<fileset, exists, age, notLive>>

\* Lines 71 / 110: fileset -= processed_infiles.
LiveEndRound ==
    /\ pc = "live_for"
    /\ todo = {}
    /\ fileset' = fileset \ processed_infiles
    /\ pc' = "live_sleep"
    /\ UNCHANGED <<contigs, status, todo, processed_infiles, attempted, reads, exists, age,
                   notLive>>

Older(a) == IF a + PollInterval > MaxAge THEN MaxAge ELSE a + PollInterval

\* Lines 72 / 111: time.sleep(30).
LiveSleep ==
    /\ pc = "live_sleep"
    /\ age' = [f \in Files |-> IF exists[f] THEN Older(age[f]) ELSE age[f]]
    /\ pc' = "live_while"
    /\ UNCHANGED <<contigs, status, todo, fileset, processed_infiles, attempted, reads,
                   exists, notLive>>

\* Lines 73 / 112: the while test fails and the loader returns.
LiveReturn ==
    /\ pc = "live_while"
    /\ fileset = {}
    /\ pc' = RetPc("open_outfile")
    /\ status' = RetStatus
    /\ UNCHANGED <<contigs, todo, liveVars, notLive>>

\* A producer creates its shelf or writes to it.
ProducerWrites ==
    /\ pc \in {"live_while", "live_for", "live_sleep"}
    /\ \E f \in Files :
          /\ exists' = [exists EXCEPT ![f] = TRUE]
          /\ age' = [age EXCEPT ![f] = 0]
    /\ UNCHANGED <<contigs, pc, status, todo, fileset, processed_infiles, attempted, reads,
                   notLive>>

NextLive ==
    \/ LiveRound \/ LiveSkip \/ LiveOpenFail \/ LiveLoad \/ LiveEndRound
    \/ LiveSleep \/ LiveReturn \/ ProducerWrites

SpecLive == InitLive /\ [][NextLive]_vars

LiveStep ==
    \/ LiveRound \/ LiveSkip \/ LiveOpenFail \/ LiveLoad \/ LiveEndRound
    \/ LiveSleep \/ LiveReturn

\* The single control flow keeps running, and shelve.open on a shelf that
\* stays stable does not fail forever.
SpecLiveFair == SpecLive /\ WF_vars(LiveStep) /\ SF_vars(LiveLoad)

\* C3: in a live merge a shelf is opened only in a round in which it exists
\* and is older than the 300-second window; no shelf is read twice; the
\* shelves processed in a round are out of the pending set once the round is
\* over and the pending set never grows; and when the loader returns every
\* shelf has been read exactly once.
C3_ReadWhenQuietOnce ==
    /\ [][\A f \in Files :
            (f \in attempted' \ attempted \/ reads'[f] # reads[f]) =>
                (exists[f] /\ age[f] > 300 /\ f \in fileset)]_vars
    /\ [](\A f \in Files : reads[f] <= 1)
    /\ [](pc \in {"live_while", "live_sleep", "returned"} =>
             fileset \cap processed_infiles = {})
    /\ [][fileset' \subseteq fileset /\ processed_infiles \subseteq processed_infiles']_vars
    /\ [](pc = "returned" => \A f \in Range(infiles) : reads[f] = 1)

\* C3 witness: in one round a shelf aged exactly 300 seconds was visited and
\* left unopened while another shelf, older than the window, was read.
C3_Witness ==
    /\ pc = "live_for"
    /\ \E f, g \in Files :
          /\ reads[f] = 1 /\ f \in attempted /\ f \in processed_infiles
          /\ g \in fileset \ todo
          /\ exists[g] /\ age[g] = 300
          /\ g \notin attempted /\ reads[g] = 0

\* C10: the live loader is over only when the pending set is empty and every
\* input shelf is processed.
C10_OverOnlyWhenDrained ==
    (pc \in {"returned", "terminated"}) =>
        (fileset = {} /\ processed_infiles = Range(infiles))

(***************************************************************************)
(* write_wssd_to_h5 and the containers handed to --wssd_merge.             *)
(***************************************************************************)
MaxWssd == 2

Shape3(a) == <<Len(a), Len(a[1]), Len(a[1][1])>>

Container(name, a) == [group |-> TRUE, arrays |-> Put(EmptyDict, name, a)]

\* Finished single-region containers, and a file without the group.
WssdFiles ==
    {Container("chr1", <<<<<<5, 3>>>>>>),
     Container("chr2", <<<<<<1, 2>>>>, <<<<3, 4>>>>>>),
     Container("chr1", <<<<<<1, 0>>, <<0, 1>>>>>>),
     [group |-> FALSE, arrays |-> EmptyDict]}

SingleRegion(w) == w.group /\ Cardinality(DOMAIN w.arrays) = 1

\* wssd.list_nodes("/depthAndStarts_wssd")[0], for a container with one array.
first_node(w) == CHOOSE n \in DOMAIN w.arrays : TRUE

\* Line 175 with the first two dimensions exchanged.
new_carray_transposed(first, second, third) ==
    [i \in 1 .. second |-> [j \in 1 .. first |-> [k \in 1 .. third |-> 0]]]

\* Line 175: tables.CArray creates a zero-filled array of the given shape.
new_carray(first, second, third) ==
    [i \in 1 .. first |-> [j \in 1 .. second |-> [k \in 1 .. third |-> 0]]]

\* write_wssd_to_h5 on the output container f; line 181 only rebinds the local
\* name carray_empty, the array in f keeps what line 175 gave it.
write_wssd_to_h5(wssd, f) ==
    LET g == [f EXCEPT !.group = TRUE, !.dirty = f.dirty \/ ~f.group]
    IN  IF ~wssd.group THEN [status |-> "NoSuchNodeError", fout |-> g, name |-> ""]
        ELSE IF DOMAIN wssd.arrays = {} THEN [status |-> "IndexError", fout |-> g, name |-> ""]
        ELSE LET name == first_node(wssd)
                 shape == Shape3(wssd.arrays[name])
             IN  IF name \in DOMAIN g.arrays
                 THEN [status |-> "NodeError", fout |-> g, name |-> name]
                 ELSE [status |-> "ok", name |-> name,
                       fout |-> [g EXCEPT !.dirty = FALSE,
                                   !.arrays = Put(g.arrays, name,
                                       new_carray(shape[1], shape[2], shape[3]))]]

(***************************************************************************)
(* __main__.                                                               *)
(***************************************************************************)
RECURSIVE SeqsUpTo(_, _)
SeqsUpTo(S, n) ==
    IF n = 0 THEN {<<>>}
    ELSE LET shorter == SeqsUpTo(S, n - 1)
         IN  shorter \cup {Append(q, x) : q \in shorter, x \in S}

MainArgs ==
    [per_contig_merge : BOOLEAN,
     contig : {<<>>, <<"chr1">>},
     contigs_file : {<<>>, <<"contigs.tab">>},
     live_merge : BOOLEAN,
     wssd_merge : SeqsUpTo(WssdFiles, MaxWssd)]

\* The shelves of a run of __main__: as in a live run, or one holding a list.
MainStores ==
    LiveStores \cup
    {[f \in Files |-> IF f = 1 THEN Put(EmptyDict, "chr1", Other)
                      ELSE Put(EmptyDict, "chr1", Dense(Ones))]}

\* What an earlier run can have left in the output container.
OldFiles ==
    {ClosedFile,
     [ClosedFile EXCEPT !.group = TRUE],
     [ClosedFile EXCEPT !.group = TRUE, !.arrays = Put(EmptyDict, "chr1", OldArray)]}

\* Options and files a run never reads are left at one value: --contig and
\* --contigs_file without --per_contig_merge, and the shelves and their ages
\* when no shelf is loaded.
InitMain ==
    /\ caller = "main"
    /\ args \in MainArgs
    /\ args.per_contig_merge \/ (args.contig = <<>> /\ args.contigs_file = <<>>)
    /\ stores \in MainStores
    /\ (args.per_contig_merge \/ args.wssd_merge # <<>>) =>
          stores = [f \in Files |-> Put(EmptyDict, "chr1", Dense(Ones))]
    /\ infiles = [i \in Files |-> i]
    /\ idx = 1
    /\ contig_name = ""
    /\ contigs = EmptyDict
    /\ todo = {}
    /\ fout \in OldFiles
    /\ created = <<>>
    /\ nopen = 0
    /\ fileset = {}
    /\ processed_infiles = {}
    /\ attempted = {}
    /\ reads = [f \in Files |-> 0]
    /\ exists \in [Files -> BOOLEAN]
    /\ (args.live_merge /\ ~args.per_contig_merge /\ args.wssd_merge = <<>>)
          \/ \A f \in Files : exists[f]
    /\ age = [f \in Files |-> 0]
    /\ pc = "validate"
    /\ status = "running"

notMain == <<stores, infiles, contig_name, contigs, created, caller, args, attempted,
             reads, exists, age, todo>>

\* Lines 210-213: per-contig merge asked for without --contigs_file or --contig.
MainValidateExit ==
    /\ pc = "validate"
    /\ args.per_contig_merge /\ args.contigs_file = <<>> /\ args.contig = <<>>
    /\ pc' = "terminated"
    /\ status' = "SystemExit"
    /\ UNCHANGED <<idx, fout, nopen, fileset, processed_infiles, notMain>>

\* Lines 210-215: the arguments pass the check.
MainValidateOk ==
    /\ pc = "validate"
    /\ ~(args.per_contig_merge /\ args.contigs_file = <<>> /\ args.contig = <<>>)
    /\ pc' = "contig_list"
    /\ UNCHANGED <<status, idx, fout, nopen, fileset, processed_infiles, notMain>>

\* Lines 223-226: args has no attribute contig_file (the option is
\* contigs_file), so the test of line 226 raises AttributeError.
MainContigListError ==
    /\ pc = "contig_list"
    /\ args.per_contig_merge
    /\ pc' = "terminated"
    /\ status' = "AttributeError"
    /\ UNCHANGED <<idx, fout, nopen, fileset, processed_infiles, notMain>>

\* Lines 220-243 without per-contig merge: the list of shelves is collected.
MainInfiles ==
    /\ pc = "contig_list"
    /\ ~args.per_contig_merge
    /\ pc' = "branch"
    /\ UNCHANGED <<status, idx, fout, nopen, fileset, processed_infiles, notMain>>

\* Lines 254-258: the shelves are loaded, live or all at once.
MainLoad ==
    /\ pc = "branch"
    /\ args.wssd_merge = <<>>
    /\ idx' = 1
    /\ fileset' = IF args.live_merge THEN Range(infiles) ELSE fileset
    /\ processed_infiles' = {}
    /\ pc' = IF args.live_merge THEN "live_while" ELSE "load_matrices_post"
    /\ UNCHANGED <<status, fout, nopen, notMain>>

\* Line 261: with tables.open_file(args.outfile, mode="a") as fout.
MainOpenOut ==
    /\ pc = "open_outfile"
    /\ fout' = [fout EXCEPT !.open = TRUE]
    /\ nopen' = nopen + 1
    /\ pc' = "write_to_h5"
    /\ UNCHANGED <<status, idx, fileset, processed_infiles, notMain>>

\* The with block of line 250, 261 or 267 is left.
MainWithExit ==
    /\ pc = "with_exit"
    /\ fout' = with_exit(fout)
    /\ pc' = "finish"
    /\ UNCHANGED <<status, idx, nopen, fileset, processed_infiles, notMain>>

\* Lines 274-279.
MainFinish ==
    /\ pc = "finish"
    /\ pc' = "terminated"
    /\ status' = "ok"
    /\ UNCHANGED <<idx, fout, nopen, fileset, processed_infiles, notMain>>

\* Line 267: the output container is opened for the container merge.
MainWssdOpenOut ==
    /\ pc = "branch"
    /\ args.wssd_merge # <<>>
    /\ fout' = [fout EXCEPT !.open = TRUE]
    /\ nopen' = nopen + 1
    /\ idx' = 1
    /\ pc' = "wssd_loop"
    /\ UNCHANGED <<status, fileset, processed_infiles, notMain>>

notWssd == <<stores, infiles, contig_name, contigs, caller, args, attempted,
             reads, exists, age, todo, nopen, fileset, processed_infiles>>

\* Lines 269-272: one input container is opened and appended.
MainWssdIter ==
    /\ pc = "wssd_loop"
    /\ idx <= Len(args.wssd_merge)
    /\ LET r == write_wssd_to_h5(args.wssd_merge[idx], fout)
       IN  IF r.status = "ok"
           THEN /\ fout' = r.fout
                /\ created' = Append(created, r.name)
                /\ idx' = idx + 1
                /\ UNCHANGED <<pc, status>>
           ELSE /\ fout' = with_exit(r.fout)
                /\ pc' = "terminated"
                /\ status' = r.status
                /\ UNCHANGED <<idx, created>>
    /\ UNCHANGED notWssd

\* Line 269: the for loop is over.
MainWssdDone ==
    /\ pc = "wssd_loop"
    /\ idx > Len(args.wssd_merge)
    /\ pc' = "with_exit"
    /\ UNCHANGED <<status, idx, fout, created, notWssd>>

\* The per_contig_merge branch of lines 245-252 is not among the steps of
\* __main__: line 226 raises whenever per_contig_merge is set.
NextMain ==
    \/ MainValidateExit \/ MainValidateOk \/ MainContigListError \/ MainInfiles
    \/ MainLoad \/ PostIter \/ PostOpenFail \/ PostReturn
    \/ LiveRound \/ LiveSkip \/ LiveOpenFail \/ LiveLoad \/ LiveEndRound
    \/ LiveSleep \/ LiveReturn \/ ProducerWrites
    \/ MainOpenOut \/ WriteGroup \/ WriteRegion \/ WriteReturn
    \/ MainWssdOpenOut \/ MainWssdIter \/ MainWssdDone
    \/ MainWithExit \/ MainFinish

SpecMain == InitMain /\ [][NextMain]_vars

WssdMode == caller = "main" /\ ~args.per_contig_merge /\ args.wssd_merge # <<>>

WssdName(i) == first_node(args.wssd_merge[i])

WssdInputs == 1 .. Len(args.wssd_merge)

AllSingleRegion == \A i \in WssdInputs : SingleRegion(args.wssd_merge[i])

AllCopiedWithShape ==
    /\ status = "ok"
    /\ \A i \in WssdInputs :
          /\ WssdName(i) \in DOMAIN fout.arrays
          /\ Shape3(fout.arrays[WssdName(i)]) =
                Shape3(args.wssd_merge[i].arrays[WssdName(i)])

\* C7 as stated: container-merge mode given any list of finished
\* single-region containers ends with every input's array in the output
\* container, under the input's name and with the input's shape.
C7_EveryInputCopied ==
    (WssdMode /\ pc = "terminated" /\ AllSingleRegion) => AllCopiedWithShape

\* The arrays the output container held before this run.
OldNames == (DOMAIN fout.arrays) \ Range(created)

DistinctNewNames ==
    /\ \A i, j \in WssdInputs : i # j => WssdName(i) # WssdName(j)
    /\ \A i \in WssdInputs : WssdName(i) \notin OldNames

\* C7 amended: when the input containers' array names differ from one another
\* and from the names already in the output container, the run ends with one
\* array per input, of the input's name and shape, created in input order.
C7_DistinctInputsCopied ==
    (WssdMode /\ pc = "terminated" /\ AllSingleRegion /\ DistinctNewNames) =>
        /\ AllCopiedWithShape
        /\ created = [i \in WssdInputs |-> WssdName(i)]

\* C7 witness: a finished merge of two containers of different regions and
\* shapes.
C7_Witness ==
    /\ WssdMode /\ pc = "terminated" /\ status = "ok"
    /\ created = <<"chr1", "chr2">>
    /\ Shape3(fout.arrays["chr1"]) = <<1, 2, 2>>
    /\ Shape3(fout.arrays["chr2"]) = <<2, 1, 2>>

NoRegionSource == args.contigs_file = <<>> /\ args.contig = <<>>

NothingOpened ==
    /\ nopen = 0 /\ ~fout.open
    /\ idx = 1 /\ contigs = EmptyDict
    /\ \A f \in Files : reads[f] = 0 /\ f \notin attempted

\* C8: per-region mode without a region source exits with a non-zero status
\* before any shelf or the output container is opened; with a region source
\* the run goes on to load shelves and write to the output container.
C8_ValidationThenPipeline ==
    (caller = "main" /\ args.per_contig_merge /\ pc = "terminated") =>
        IF NoRegionSource
        THEN status = "SystemExit" /\ NothingOpened
        ELSE ~NothingOpened

\* C9: no run of __main__ ends with the output container open.
C9_OutputClosedAtExit ==
    (caller = "main" /\ pc = "terminated") => ~fout.open

\* C9 witness: a run that opened the output container and ended with an
\* exception raised while a region was written.
C9_Witness ==
    /\ caller = "main" /\ pc = "terminated"
    /\ status = "NodeError" /\ args.wssd_merge = <<>>
    /\ nopen = 1 /\ ~fout.open

\* The liveness half of C10 for load_matrices_live alone (under SpecLiveFair):
\* if every shelf ends up existing and older than the window for good, the
\* loader returns with every shelf processed.
LiveMergeDrains ==
    (contig_name = "" /\ \A f \in Files : <>[](exists[f] /\ age[f] > 300)) =>
        <>(pc = "returned" /\ processed_infiles = Range(infiles))

\* An open of infile was tried in this step and failed: nothing was read.
OpenFailed(f) == f \in attempted' \ attempted /\ reads'[f] = reads[f]

\* C11: in a live merge a failed open of a stable shelf leaves the accumulator
\* and the processed set unchanged and the path in the pending set, the for
\* loop goes on with the rest of the round (the round is over only when every
\* pending path has been visited), a path that failed stays pending until it
\* is read, and the next round visits every pending path again.
C11_OpenFailureRetried ==
    /\ [][\A f \in Files :
            OpenFailed(f) =>
                /\ exists[f] /\ age[f] > QuiescenceWindow
                /\ contigs' = contigs
                /\ processed_infiles' = processed_infiles
                /\ fileset' = fileset /\ f \in fileset'
                /\ pc' = "live_for" /\ status' = status
                /\ todo' = todo \ {f}]_vars
    /\ [][(pc = "live_for" /\ pc' = "live_sleep") =>
            (todo = {} /\ \A f \in Files : f \in fileset /\ reads[f] = 0 => f \in fileset')]_vars
    /\ [][(pc = "live_while" /\ pc' = "live_for") =>
            (todo' = fileset /\ fileset' = fileset)]_vars

\* C11 witness: a round in which the open of one stable shelf failed, the
\* shelf is still pending and unread, and the loop went on to read another.
C11_Witness ==
    /\ pc = "live_for"
    /\ \E f, g \in Files :
          /\ f # g
          /\ f \in attempted /\ reads[f] = 0
          /\ f \in fileset \ processed_infiles
          /\ exists[f] /\ age[f] > QuiescenceWindow
          /\ g \in attempted /\ reads[g] = 1 /\ g \in processed_infiles

WholeMode == caller = "main" /\ ~args.per_contig_merge /\ args.wssd_merge = <<>>

\* Every producer shelf has been loaded into the accumulator.
AllLoaded ==
    IF args.live_merge
    THEN processed_infiles = Range(infiles) /\ \A f \in Range(infiles) : reads[f] = 1
    ELSE idx = Len(infiles) + 1

HeldRegions == UNION {DOMAIN stores[f] : f \in Files}

\* C12: in whole-accumulator mode (batch or live) the output container is not
\* opened and no array is created in it while the shelves are being loaded;
\* whenever an array has been created every shelf has been loaded; no region
\* is written twice; every array written is the array of the complete sum of
\* its region over all shelves; and a run that ends normally has written
\* every region of the accumulator.
C12_WriteAfterFullLoad ==
    /\ [](WholeMode /\ pc \in {"load_matrices_post", "live_while", "live_for", "live_sleep"}
            => created = <<>> /\ nopen = 0 /\ ~fout.open)
    /\ [][WholeMode /\ pc \in {"load_matrices_post", "live_while", "live_for", "live_sleep"}
            => fout' = fout]_vars
    /\ [](WholeMode /\ (created # <<>> \/ nopen > 0) => AllLoaded)
    /\ [](WholeMode =>
            /\ \A i, j \in 1 .. Len(created) : i # j => created[i] # created[j]
            /\ \A name \in Range(created) :
                  /\ name \in DOMAIN contigs
                  /\ contigs[name] = SumOver(name)
                  /\ fout.arrays[name] = carray(SumOver(name).m))
    /\ [](WholeMode /\ pc = "terminated" /\ status = "ok" =>
            /\ DOMAIN contigs = HeldRegions
            /\ Range(created) = DOMAIN contigs)

\* C12 witness: a whole-accumulator run over shelves that all hold chr1 and
\* one of which also holds chr2 ended normally with both regions written, chr1
\* as the array of the sum over every shelf.
C12_Witness ==
    /\ WholeMode /\ pc = "terminated" /\ status = "ok"
    /\ Holders("chr1") = Files
    /\ Range(created) = {"chr1", "chr2"}
    /\ fout.arrays["chr1"][1][1] = <<NumFiles, NumFiles>>

BatchWhole == WholeMode /\ ~args.live_merge

\* C13: in a batch run a failed open of a producer shelf ends the run at once
\* with the error: the accumulator and the loop index stay as they were, no
\* later shelf is loaded, and in whole-accumulator mode the output container
\* is never opened and no region is written.
C13_BatchOpenFailureAborts ==
    /\ [][(BatchWhole /\ status # "dbm.error" /\ status' = "dbm.error") =>
            /\ pc = "load_matrices_post" /\ pc' = "terminated"
            /\ idx' = idx /\ contigs' = contigs /\ fout' = fout]_vars
    /\ [](BatchWhole /\ status = "dbm.error" =>
            /\ pc = "terminated"
            /\ idx <= Len(infiles)
            /\ nopen = 0 /\ ~fout.open /\ created = <<>>)
    /\ [][(BatchWhole /\ status = "dbm.error") =>
            (idx' = idx /\ contigs' = contigs /\ fout' = fout /\ nopen' = nopen)]_vars

\* C13 witness: the first shelf was merged, the open of the second failed and
\* the run ended with the output container never opened.
C13_Witness ==
    /\ BatchWhole /\ pc = "terminated" /\ status = "dbm.error"
    /\ idx = 2 /\ contigs # EmptyDict
    /\ nopen = 0 /\ created = <<>>

\* The shelf holds a matrix that is neither an ndarray nor sparse.
HasOther(f) == \E r \in DOMAIN stores[f] : stores[f][r].kind \notin {"ndarray", "sparse"}

\* C14: in a whole-accumulator run, live or batch, merging a shelf that holds
\* a matrix that is neither dense nor sparse ends the run with SystemExit (exit
\* status 1): in a live merge the shelf was read once, is not processed and is
\* not read again; a batch merge never gets past it; the output container is
\* never opened and no region is written; and nothing happens after the exit.
C14_OtherTypeFatal ==
    /\ [](WholeMode /\ args.live_merge =>
            \A f \in Files :
                (HasOther(f) /\ reads[f] > 0) =>
                    /\ pc = "terminated" /\ status = "SystemExit"
                    /\ reads[f] = 1 /\ f \notin processed_infiles /\ f \in fileset
                    /\ nopen = 0 /\ ~fout.open /\ created = <<>>)
    /\ [](BatchWhole =>
            \A i \in 1 .. Len(infiles) :
                HasOther(infiles[i]) =>
                    /\ idx <= i
                    /\ nopen = 0 /\ ~fout.open /\ created = <<>>
                    /\ (pc = "terminated" => status \in {"SystemExit", "dbm.error"}))
    /\ [](WholeMode /\ status = "SystemExit" => pc = "terminated")
    /\ [][(WholeMode /\ status = "SystemExit") => UNCHANGED vars]_vars

\* C14 witness: a live whole-accumulator run merged one shelf, then met a
\* list under chr1 in the other shelf and exited.
C14_Witness ==
    /\ WholeMode /\ args.live_merge
    /\ pc = "terminated" /\ status = "SystemExit"
    /\ \E f, g \in Files :
          /\ HasOther(f) /\ reads[f] = 1 /\ f \in fileset
          /\ ~HasOther(g) /\ reads[g] = 1 /\ g \in processed_infiles
          /\ "chr1" \in DOMAIN contigs /\ contigs["chr1"] = stores[g]["chr1"]
    /\ nopen = 0 /\ created = <<>>

\* C15: in a per-region live drain of region r no region other than r is ever
\* added to the accumulator, the drain does not end by an error, and when it
\* is over the accumulator holds under r the sum of the r matrices of the
\* shelves that hold r (None when no shelf holds r).
C15_PerRegionLiveOnlyR ==
    (caller = "call" /\ contig_name # "" /\ pc \in {"live_while", "live_for", "live_sleep",
                                                     "returned", "terminated"}) =>
        /\ DOMAIN contigs = {contig_name}
        /\ pc # "terminated"
        /\ pc = "returned" =>
              contigs[contig_name] =
                  (IF Holders(contig_name) = {} THEN None ELSE SumOver(contig_name))

(***************************************************************************)
(* load_matrices_post over shelves whose matrices for one region differ in *)
(* shape.                                                                  *)
(***************************************************************************)
MixedShapes == {<<2, 1>>, <<2, 2>>, <<1, 1>>}

MixedShelves ==
    UNION {{Put(EmptyDict, "chr1", Dense(m)) : m \in Mats(sh[1], sh[2])} : sh \in MixedShapes}

InitMixedShapes ==
    /\ stores \in [Files -> MixedShelves]
    /\ infiles = [i \in Files |-> i]
    /\ idx = 1
    /\ contigs = EmptyDict
    /\ pc = "load_matrices_post"
    /\ status = "running"
    /\ contig_name = ""
    /\ NoOutput

SpecMixedShapes == InitMixedShapes /\ [][NextPost]_vars

\* C16: every matrix merged into the sum of a region has the shape of the
\* matrices merged before it (a matrix of another shape ends the merge in an
\* error and leaves the sum as it was).
C16_ShapeMismatchRaises ==
    \A i, j \in 1 .. idx - 1 :
        Shape(stores[infiles[i]]["chr1"].m) = Shape(stores[infiles[j]]["chr1"].m)

\* C17: after write_wssd_to_h5 for an input container the new array in the
\* output container equals, element by element, the input container's array.
C17_ContentsCopied ==
    WssdMode =>
        \A i \in 1 .. Len(created) :
            fout.arrays[created[i]] = args.wssd_merge[i].arrays[created[i]]

PerRegionMode == caller = "main" /\ args.per_contig_merge /\ ~NoRegionSource

\* C18: a per-region run with a region source loads every shelf, through the
\* live loader (each shelf read by the poller) when live merge is selected and
\* through the batch loader otherwise.
C18_PerRegionLoaderByMode ==
    (PerRegionMode /\ pc = "terminated") =>
        /\ status # "AttributeError"
        /\ IF args.live_merge
           THEN \A f \in Range(infiles) : reads[f] >= 1
           ELSE idx > Len(infiles) \/ status = "dbm.error"

\* C19: a whole-accumulator or per-region run that got past its argument check
\* and loaded its shelves has opened the output container exactly once, the
\* container is open while regions are written, and it is flushed after each
\* region write.
C19_OutputOpenedOnce ==
    (caller = "main" /\ (args.per_contig_merge \/ args.wssd_merge = <<>>)) =>
        /\ nopen <= 1
        /\ pc = "write_loop" => (nopen = 1 /\ fout.open /\ (created # <<>> => ~fout.dirty))
        /\ (pc = "terminated" /\ status \notin {"SystemExit", "dbm.error"}) => nopen = 1

\* The whole-accumulator half of C19, which holds: the output container is
\* opened once, is open while regions are written, and nothing is left
\* unflushed after a region write.
WholeModeOpensOnce ==
    WholeMode =>
        /\ nopen <= 1
        /\ pc = "write_loop" => (nopen = 1 /\ fout.open /\ (created # <<>> => ~fout.dirty))
        /\ (pc = "terminated" /\ status \notin {"SystemExit", "dbm.error"}) => nopen = 1

\* C20: the live loader is about to sleep only when the pending set is still
\* non-empty after the round's processed paths were removed (the round that
\* empties the pending set goes to the return without a sleep).
C20_SleepOnlyWhilePending ==
    pc = "live_sleep" => fileset # {}

=============================================================================
